---- MODULE Spec2Model ----
(***************************************************************************)
(* The JSON-RPC 2.0 line endpoint of src/src/main.rs: the loop of main     *)
(* reads stdin line by line, tries each line as a JsonRpcRequest, then as  *)
(* a JsonRpcNotification, and answers on stdout through send_response.     *)
(*                                                                         *)
(* Text is modelled at the level of the JSON data model: a line of text is *)
(* either not JSON at all or the JSON value it denotes, and a written line *)
(* is the JSON value serde_json::to_string prints.  The Rust values        *)
(* (JsonRpcId, the request and response structs, Option, Result) are       *)
(* records of their own, so that parsing and printing are conversions      *)
(* between two different representations.                                  *)
(*                                                                         *)
(* Not modelled: the log sink (write-only), duplicate keys in an object    *)
(* (serde rejects a duplicate of a known field), and insignificant         *)
(* whitespace.                                                             *)
(***************************************************************************)
EXTENDS Integers, Sequences, FiniteSets, TLC

(***************************************************************************)
(* Bounds and program constants                                            *)
(***************************************************************************)
\* The longest input (number of stdin lines) of the loop specifications.
MaxLines == 3

ERROR_CODE_PARSE_ERROR == -32700
ERROR_CODE_INVALID_REQUEST == -32600
ERROR_CODE_METHOD_NOT_FOUND == -32601
ERROR_CODE_INVALID_PARAMS == -32602
ERROR_CODE_INTERNAL_ERROR == -32603

(***************************************************************************)
(* JSON values (serde_json's data model).  A number keeps the form         *)
(* serde_json parses it into: PosInt (a non-negative integer that fits     *)
(* u64), NegInt (a negative integer), Float (anything else: a fraction, an *)
(* exponent, an integer out of range; n is then the value in tenths).      *)
(***************************************************************************)
JNull == [t |-> "null"]
JBool(b) == [t |-> "bool", b |-> b]
JPosInt(n) == [t |-> "num", form |-> "PosInt", n |-> n]
JNegInt(n) == [t |-> "num", form |-> "NegInt", n |-> n]
JFloat(n) == [t |-> "num", form |-> "Float", n |-> n]
JStr(s) == [t |-> "str", s |-> s]
JArr(a) == [t |-> "arr", a |-> a]
JObj(o) == [t |-> "obj", o |-> o]
EmptyMap == [k \in {} |-> JNull]
\* The text of a line that is not one JSON value (a syntax error, an empty
\* line, trailing characters).
NotJson == [t |-> "invalid"]

\* serde_json prints an i32 as a JSON integer.
JInt(n) == IF n >= 0 THEN JPosInt(n) ELSE JNegInt(n)

(***************************************************************************)
(* Rust values                                                             *)
(***************************************************************************)
None == [opt |-> "None"]
Some(v) == [opt |-> "Some", val |-> v]
Ok(v) == [res |-> "Ok", val |-> v]
Err == [res |-> "Err"]
IsOk(r) == r.res = "Ok"

IdNumber(n) == [variant |-> "Number", n |-> n]
IdString(s) == [variant |-> "String", s |-> s]

\* JsonRpcId::clone
CloneId(id) ==
    IF id.variant = "Number" THEN IdNumber(id.n) ELSE IdString(id.s)

(***************************************************************************)
(* Deserialize, as #[derive(Deserialize)] generates it.                    *)
(***************************************************************************)
\* String: only a JSON string.
DeserializeString(j) ==
    IF j.t = "str" THEN Ok(j.s) ELSE Err

\* #[serde(untagged)] enum JsonRpcId: the variants are tried in order,
\* Number(u64) first, then String(String).  A u64 takes a PosInt only: a
\* negative integer and a float are refused.
DeserializeId(j) ==
    IF j.t = "num" /\ j.form = "PosInt" THEN Ok(IdNumber(j.n))
    ELSE IF j.t = "str" THEN Ok(IdString(j.s))
    ELSE Err

\* Option<Value>: null is None, any other value v is Some(v).
DeserializeOptionValue(j) ==
    IF j.t = "null" THEN None ELSE Some(j)

\* A field of type Option<Value> of a struct read from an object: a missing
\* key is None.
OptionField(o, k) ==
    IF k \in DOMAIN o THEN DeserializeOptionValue(o[k]) ELSE None

\* A required field of a struct read from an object: a missing key is the
\* error missing_field.  Keys the struct does not name are ignored.
IdField(o) ==
    IF "id" \in DOMAIN o THEN DeserializeId(o["id"]) ELSE Err

StringField(o, k) ==
    IF k \in DOMAIN o THEN DeserializeString(o[k]) ELSE Err

\* JsonRpcRequest from a JSON value: from an object by key, or from an array
\* of exactly its four fields in declaration order.
DeserializeRequest(j) ==
    IF j.t = "obj" THEN
        LET id == IdField(j.o)
            jsonrpc == StringField(j.o, "jsonrpc")
            method == StringField(j.o, "method")
        IN  IF IsOk(id) /\ IsOk(jsonrpc) /\ IsOk(method)
            THEN Ok([id |-> id.val, jsonrpc |-> jsonrpc.val,
                     method |-> method.val,
                     params |-> OptionField(j.o, "params")])
            ELSE Err
    ELSE IF j.t = "arr" THEN
        IF Len(j.a) = 4
           /\ IsOk(DeserializeId(j.a[1]))
           /\ IsOk(DeserializeString(j.a[2]))
           /\ IsOk(DeserializeString(j.a[3]))
        THEN Ok([id |-> DeserializeId(j.a[1]).val,
                 jsonrpc |-> DeserializeString(j.a[2]).val,
                 method |-> DeserializeString(j.a[3]).val,
                 params |-> DeserializeOptionValue(j.a[4])])
        ELSE Err
    ELSE Err

\* JsonRpcNotification from a JSON value: jsonrpc, method and params; an
\* object's other keys (an "id" among them) are ignored.
DeserializeNotification(j) ==
    IF j.t = "obj" THEN
        LET jsonrpc == StringField(j.o, "jsonrpc")
            method == StringField(j.o, "method")
        IN  IF IsOk(jsonrpc) /\ IsOk(method)
            THEN Ok([jsonrpc |-> jsonrpc.val, method |-> method.val,
                     params |-> OptionField(j.o, "params")])
            ELSE Err
    ELSE IF j.t = "arr" THEN
        IF Len(j.a) = 3
           /\ IsOk(DeserializeString(j.a[1]))
           /\ IsOk(DeserializeString(j.a[2]))
        THEN Ok([jsonrpc |-> DeserializeString(j.a[1]).val,
                 method |-> DeserializeString(j.a[2]).val,
                 params |-> DeserializeOptionValue(j.a[3])])
        ELSE Err
    ELSE Err

\* i32: a JSON integer (the codes here are far inside the range of i32).
DeserializeI32(j) ==
    IF j.t = "num" /\ j.form \in {"PosInt", "NegInt"} THEN Ok(j.n) ELSE Err

\* JsonRpcError with its code read as an unsigned integer (a faulty
\* variant).
DeserializeErrorUnsignedCode(j) ==
    IF j.t = "obj"
       /\ "code" \in DOMAIN j.o /\ j.o["code"].t = "num"
       /\ j.o["code"].form = "PosInt"
       /\ IsOk(StringField(j.o, "message"))
    THEN Ok([code |-> j.o["code"].n,
             message |-> StringField(j.o, "message").val,
             data |-> OptionField(j.o, "data")])
    ELSE Err

\* JsonRpcError from a JSON value: code and message are required, data is
\* an Option.
DeserializeError(j) ==
    IF j.t = "obj" THEN
        IF "code" \in DOMAIN j.o /\ IsOk(DeserializeI32(j.o["code"]))
           /\ IsOk(StringField(j.o, "message"))
        THEN Ok([code |-> DeserializeI32(j.o["code"]).val,
                 message |-> StringField(j.o, "message").val,
                 data |-> OptionField(j.o, "data")])
        ELSE Err
    ELSE IF j.t = "arr" THEN
        IF Len(j.a) = 3
           /\ IsOk(DeserializeI32(j.a[1]))
           /\ IsOk(DeserializeString(j.a[2]))
        THEN Ok([code |-> DeserializeI32(j.a[1]).val,
                 message |-> DeserializeString(j.a[2]).val,
                 data |-> DeserializeOptionValue(j.a[3])])
        ELSE Err
    ELSE Err

\* JsonRpcResponseSuccess from a JSON value.
DeserializeResponseSuccess(j) ==
    IF j.t = "obj" THEN
        IF IsOk(IdField(j.o)) /\ IsOk(StringField(j.o, "jsonrpc"))
        THEN Ok([id |-> IdField(j.o).val,
                 jsonrpc |-> StringField(j.o, "jsonrpc").val,
                 result |-> OptionField(j.o, "result")])
        ELSE Err
    ELSE IF j.t = "arr" THEN
        IF Len(j.a) = 3
           /\ IsOk(DeserializeId(j.a[1]))
           /\ IsOk(DeserializeString(j.a[2]))
        THEN Ok([id |-> DeserializeId(j.a[1]).val,
                 jsonrpc |-> DeserializeString(j.a[2]).val,
                 result |-> DeserializeOptionValue(j.a[3])])
        ELSE Err
    ELSE Err

\* Option<JsonRpcError>: null is None; any other value must be a
\* JsonRpcError.
DeserializeOptionError(j) ==
    IF j.t = "null" THEN Ok(None)
    ELSE IF IsOk(DeserializeError(j)) THEN Ok(Some(DeserializeError(j).val))
    ELSE Err

\* JsonRpcResponseError from a JSON value.
DeserializeResponseError(j) ==
    IF j.t = "obj" THEN
        LET error == IF "error" \in DOMAIN j.o
                     THEN DeserializeOptionError(j.o["error"]) ELSE Ok(None)
        IN  IF IsOk(IdField(j.o)) /\ IsOk(StringField(j.o, "jsonrpc"))
               /\ IsOk(error)
            THEN Ok([id |-> IdField(j.o).val,
                     jsonrpc |-> StringField(j.o, "jsonrpc").val,
                     error |-> error.val])
            ELSE Err
    ELSE IF j.t = "arr" THEN
        IF Len(j.a) = 3
           /\ IsOk(DeserializeId(j.a[1]))
           /\ IsOk(DeserializeString(j.a[2]))
           /\ IsOk(DeserializeOptionError(j.a[3]))
        THEN Ok([id |-> DeserializeId(j.a[1]).val,
                 jsonrpc |-> DeserializeString(j.a[2]).val,
                 error |-> DeserializeOptionError(j.a[3]).val])
        ELSE Err
    ELSE Err

(***************************************************************************)
(* Serialize, as #[derive(Serialize)] generates it.                        *)
(***************************************************************************)
\* The decimal digits of a natural number, as write!(f, "{}", n) prints it.
RECURSIVE Digits(_)
Digits(n) ==
    LET d == CASE n % 10 = 0 -> "0" [] n % 10 = 1 -> "1" [] n % 10 = 2 -> "2"
               [] n % 10 = 3 -> "3" [] n % 10 = 4 -> "4" [] n % 10 = 5 -> "5"
               [] n % 10 = 6 -> "6" [] n % 10 = 7 -> "7" [] n % 10 = 8 -> "8"
               [] OTHER -> "9"
    IN  IF n < 10 THEN d ELSE Digits(n \div 10) \o d

\* impl Display for JsonRpcId
DisplayId(id) ==
    IF id.variant = "Number" THEN Digits(id.n) ELSE id.s

\* The identifier printed through Display, as text (a faulty variant).
SerializeIdAsText(id) == JStr(DisplayId(id))

\* The untagged JsonRpcId prints as its payload: a bare JSON number or a
\* bare JSON string.
SerializeId(id) ==
    IF id.variant = "Number" THEN JPosInt(id.n) ELSE JStr(id.s)

\* Option<Value>: None prints as null.
SerializeOptionValue(v) ==
    IF v.opt = "None" THEN JNull ELSE v.val

\* JsonRpcError {code, message, data}
SerializeError(e) ==
    JObj([code |-> JInt(e.code), message |-> JStr(e.message),
          data |-> SerializeOptionValue(e.data)])

\* to_json of one response struct holding both result and error, the unused
\* one None (a faulty variant).
to_json_both(response) ==
    IF "result" \in DOMAIN response
    THEN Ok(JObj([id |-> SerializeId(response.id),
                  jsonrpc |-> JStr(response.jsonrpc),
                  result |-> SerializeOptionValue(response.result),
                  error |-> JNull]))
    ELSE Ok(JObj([id |-> SerializeId(response.id),
                  jsonrpc |-> JStr(response.jsonrpc),
                  result |-> JNull,
                  error |-> IF response.error.opt = "None" THEN JNull
                            ELSE SerializeError(response.error.val)]))

\* JsonRpcResponseSuccess::to_json and JsonRpcResponseError::to_json.  A
\* response struct holds either the field result or the field error.
to_json(response) ==
    IF "result" \in DOMAIN response
    THEN Ok(JObj([id |-> SerializeId(response.id),
                  jsonrpc |-> JStr(response.jsonrpc),
                  result |-> SerializeOptionValue(response.result)]))
    ELSE Ok(JObj([id |-> SerializeId(response.id),
                  jsonrpc |-> JStr(response.jsonrpc),
                  error |-> IF response.error.opt = "None" THEN JNull
                            ELSE SerializeError(response.error.val)]))

(***************************************************************************)
(* The handlers                                                            *)
(***************************************************************************)
\* The initialize result with the prompts capability that the source keeps
\* commented out (a faulty variant).
InitializeResultWithPrompts ==
    JObj([protocolVersion |-> JStr("2024-11-05"),
          capabilities |->
              JObj([prompts |-> JObj([listChanged |-> JBool(TRUE)])]),
          serverInfo |-> JObj([name |-> JStr("MCP Rust test server"),
                               version |-> JStr("0.1.0")])])

\* handle_request, "initialize": the result is built from literals alone;
\* request.params is not read.
InitializeResult ==
    JObj([protocolVersion |-> JStr("2024-11-05"),
          capabilities |-> JObj(EmptyMap),
          serverInfo |-> JObj([name |-> JStr("MCP Rust test server"),
                               version |-> JStr("0.1.0")])])

InitializeResponse(request) ==
    [id |-> CloneId(request.id), jsonrpc |-> "2.0",
     result |-> Some(InitializeResult)]

\* The ping response with no result (a faulty variant).
PingResponseNoResult(request) ==
    [id |-> CloneId(request.id), jsonrpc |-> "2.0", result |-> None]

\* handle_request, "ping"
PingResponse(request) ==
    [id |-> CloneId(request.id), jsonrpc |-> "2.0",
     result |-> Some(JObj(EmptyMap))]

\* The unknown-method response with the code of ParseError (a faulty
\* variant).
UnknownMethodResponseParseError(request) ==
    [id |-> CloneId(request.id), jsonrpc |-> "2.0",
     error |-> Some([code |-> ERROR_CODE_PARSE_ERROR,
                     message |-> "Invalid request: '" \o request.method \o "'",
                     data |-> None])]

\* The unknown-method response with the code of MethodNotFound (a faulty
\* variant).
UnknownMethodResponseNotFound(request) ==
    [id |-> CloneId(request.id), jsonrpc |-> "2.0",
     error |-> Some([code |-> ERROR_CODE_METHOD_NOT_FOUND,
                     message |-> "Invalid request: '" \o request.method \o "'",
                     data |-> None])]

\* handle_request, any other method
UnknownMethodResponse(request) ==
    [id |-> CloneId(request.id), jsonrpc |-> "2.0",
     error |-> Some([code |-> ERROR_CODE_INVALID_REQUEST,
                     message |-> "Invalid request: '" \o request.method \o "'",
                     data |-> None])]

\* The response handle_request builds: the match on request.method.
RequestResponse(request) ==
    CASE request.method = "initialize" -> InitializeResponse(request)
      [] request.method = "ping" -> PingResponse(request)
      [] OTHER -> UnknownMethodResponse(request)

\* The parse error response with the code of InvalidRequest (a faulty
\* variant).
ParseErrorResponseInvalidRequest ==
    [id |-> IdNumber(0), jsonrpc |-> "2.0",
     error |-> Some([code |-> ERROR_CODE_INVALID_REQUEST,
                     message |-> "Parse error",
                     data |-> None])]

\* main, when the line is neither a request nor a notification.
ParseErrorResponse ==
    [id |-> IdNumber(0), jsonrpc |-> "2.0",
     error |-> Some([code |-> ERROR_CODE_PARSE_ERROR,
                     message |-> "Parse error",
                     data |-> None])]

\* serde_json::from_str::<T>(&input): the text must be one JSON value, and
\* that value must deserialize as T.
FromStrRequest(text) ==
    IF text = NotJson THEN Err ELSE DeserializeRequest(text)

FromStrNotification(text) ==
    IF text = NotJson THEN Err ELSE DeserializeNotification(text)

\* What main makes of a line it could read.
Classify(text) ==
    IF IsOk(FromStrRequest(text)) THEN "Request"
    ELSE IF IsOk(FromStrNotification(text)) THEN "Notification"
    ELSE "ParseFailure"

(***************************************************************************)
(* Input lines.  A line is what stdin.lock().lines() yields: Err (the line *)
(* could not be read, e.g. it is not UTF-8) or Ok(text).                   *)
(***************************************************************************)
IoErrLine == [kind |-> "Err"]
TextLine(j) == [kind |-> "Ok", text |-> j]

\* Marks a key an object does not have.
Absent == [t |-> "absent"]

\* The object with the keys among id, jsonrpc, method, params, extra whose
\* value is not Absent.
Object(id, jsonrpc, method, params, extra) ==
    LET all == [id |-> id, jsonrpc |-> jsonrpc, method |-> method,
                params |-> params, extra |-> extra]
        keys == {k \in DOMAIN all : all[k] # Absent}
    IN  JObj([k \in keys |-> all[k]])

IdValues ==
    {Absent, JPosInt(0), JPosInt(42), JNegInt(-1), JFloat(15), JStr("42"),
     JStr("abc"), JNull, JBool(TRUE)}

JsonrpcValues == {Absent, JStr("2.0"), JStr("1.0"), JPosInt(2)}

MethodValues ==
    {Absent, JStr("initialize"), JStr("ping"),
     JStr("notifications/initialized"), JStr("foo"), JStr(""), JNull}

ParamsValues ==
    {Absent, JNull, JObj([protocolVersion |-> JStr("2025-03-26")]),
     JObj(EmptyMap), JArr(<<>>), JPosInt(1)}

ObjectLines ==
    {TextLine(Object(i, v, m, p, Absent)) :
        i \in IdValues, v \in JsonrpcValues, m \in MethodValues,
        p \in ParamsValues}
    \cup
    {TextLine(Object(i, JStr("2.0"), m, Absent, JBool(TRUE))) :
        i \in IdValues, m \in MethodValues}

ArrayElements == {JPosInt(7), JStr("2.0"), JStr("ping"), JNull}

ArrayLines ==
    {TextLine(JArr(a)) : a \in UNION {[1..n -> ArrayElements] : n \in 0..4}}
    \cup {TextLine(JArr(<<JPosInt(7), JStr("2.0"), JStr("ping"), JNull, JNull>>))}

ScalarLines ==
    {TextLine(NotJson), TextLine(JNull), TextLine(JPosInt(1)),
     TextLine(JStr("ping")), TextLine(JBool(TRUE))}

\* Every line of the single-line specification.
AllLines == ObjectLines \cup ArrayLines \cup ScalarLines \cup {IoErrLine}

\* The lines of the loop specifications: every class of line, and requests
\* whose identifiers and responses differ.
CoreLines ==
    {TextLine(Object(JPosInt(0), JStr("2.0"), JStr("ping"), Absent, Absent)),
     TextLine(Object(JPosInt(42), JStr("2.0"), JStr("ping"), JNull, Absent)),
     TextLine(Object(JStr("42"), JStr("2.0"), JStr("ping"), Absent, Absent)),
     TextLine(Object(JPosInt(42), JStr("2.0"), JStr("initialize"),
                     JObj([protocolVersion |-> JStr("2025-03-26")]), Absent)),
     TextLine(Object(JStr("abc"), JStr("2.0"), JStr("foo"), Absent, Absent)),
     TextLine(Object(JPosInt(0), JStr("2.0"), JStr("foo"), Absent, Absent)),
     TextLine(JArr(<<JPosInt(7), JStr("2.0"), JStr("ping"), JNull>>)),
     TextLine(Object(Absent, JStr("2.0"), JStr("notifications/initialized"),
                     Absent, Absent)),
     TextLine(Object(Absent, JStr("2.0"), JStr("foo"), Absent, Absent)),
     TextLine(Object(JNull, JStr("2.0"), JStr("ping"), Absent, Absent)),
     TextLine(Object(JPosInt(5), Absent, JStr("ping"), Absent, Absent)),
     TextLine(NotJson),
     IoErrLine}

\* The sequences over S of length at most n.
SeqsUpTo(S, n) == UNION {[1..k -> S] : k \in 0..n}

(***************************************************************************)
(* State                                                                   *)
(***************************************************************************)
VARIABLES
    stdin,  \* the lines not yet read
    input,  \* the lines read so far, in order
    out,    \* the complete lines written to stdout, in order
    torn,   \* whether an unterminated fragment follows the last line of out
    pc      \* "loop": in the for loop; "exit": main returned; "panic"

vars == <<stdin, input, out, torn, pc>>

\* The loop, on inputs of up to MaxLines lines.
Init ==
    /\ stdin \in SeqsUpTo(CoreLines, MaxLines)
    /\ input = <<>>
    /\ out = <<>>
    /\ torn = FALSE
    /\ pc = "loop"

\* One line, of any shape.
InitLine ==
    /\ stdin \in {<<l>> : l \in AllLines}
    /\ input = <<>>
    /\ out = <<>>
    /\ torn = FALSE
    /\ pc = "loop"

\* The for loop takes the next line.
TakeLine ==
    /\ pc = "loop"
    /\ stdin # <<>>
    /\ input' = Append(input, Head(stdin))
    /\ stdin' = Tail(stdin)

\* send_response with the line written twice (a faulty variant).
send_response_twice(response) ==
    /\ out' = out \o <<to_json(response).val, to_json(response).val>>
    /\ UNCHANGED <<torn, pc>>

\* send_response with the line put before the earlier ones (a faulty
\* variant).
send_response_first(response) ==
    /\ out' = <<to_json(response).val>> \o out
    /\ UNCHANGED <<torn, pc>>

\* send_response that skips a line equal to the one written last (a faulty
\* variant: the output then depends on the earlier lines).
send_response_dedup(response) ==
    /\ out' = IF out # <<>> /\ out[Len(out)] = to_json(response).val
              THEN out
              ELSE Append(out, to_json(response).val)
    /\ UNCHANGED <<torn, pc>>

\* send_response with every write succeeding: the text, the newline, the
\* flush.  to_json cannot fail on these structs.
send_response(response) ==
    /\ out' = Append(out, to_json(response).val)
    /\ UNCHANGED <<torn, pc>>

\* send_response when a write fails: unwrap panics.  The failure is in
\* write_all of the text (a part of it may be out), in write_all of the
\* newline, or in flush.
send_response_fails(response) ==
    \E stage \in {"text", "newline", "flush"} :
        /\ out' = IF stage = "flush" THEN Append(out, to_json(response).val)
                  ELSE out
        /\ torn' \in (CASE stage = "text" -> BOOLEAN
                        [] stage = "newline" -> {TRUE}
                        [] OTHER -> {FALSE})
        /\ pc' = "panic"

handle_request(request) ==
    send_response(RequestResponse(request))

\* handle_notification answering an unknown method with an error (a faulty
\* variant).
handle_notification_answers(notification) ==
    IF notification.method = "notifications/initialized"
    THEN UNCHANGED <<out, torn, pc>>
    ELSE /\ out' = Append(out, to_json(
                 [id |-> IdNumber(0), jsonrpc |-> "2.0",
                  error |-> Some([code |-> ERROR_CODE_INVALID_REQUEST,
                                  message |-> "Invalid request",
                                  data |-> None])]).val)
         /\ UNCHANGED <<torn, pc>>

\* handle_notification only logs.
handle_notification(notification) ==
    UNCHANGED <<out, torn, pc>>

\* if let Ok(req) = request { handle_request(&req) }
RequestLine ==
    /\ TakeLine
    /\ Head(stdin).kind = "Ok"
    /\ IsOk(FromStrRequest(Head(stdin).text))
    /\ handle_request(FromStrRequest(Head(stdin).text).val)

\* else if let Ok(notif) = notification { handle_notification(&notif) }
NotificationLine ==
    /\ TakeLine
    /\ Head(stdin).kind = "Ok"
    /\ ~IsOk(FromStrRequest(Head(stdin).text))
    /\ IsOk(FromStrNotification(Head(stdin).text))
    /\ handle_notification(FromStrNotification(Head(stdin).text).val)

\* The parse failure only logged, with no response (a faulty variant).
ParseFailureLineSilent ==
    /\ TakeLine
    /\ Head(stdin).kind = "Ok"
    /\ ~IsOk(FromStrRequest(Head(stdin).text))
    /\ ~IsOk(FromStrNotification(Head(stdin).text))
    /\ UNCHANGED <<out, torn, pc>>

\* else: the parse error response with the identifier 0
ParseFailureLine ==
    /\ TakeLine
    /\ Head(stdin).kind = "Ok"
    /\ ~IsOk(FromStrRequest(Head(stdin).text))
    /\ ~IsOk(FromStrNotification(Head(stdin).text))
    /\ send_response(ParseErrorResponse)

\* The unreadable line ending the loop, as a break on the error would (a
\* faulty variant).
UnreadableLineBreaks ==
    /\ TakeLine
    /\ Head(stdin).kind = "Err"
    /\ pc' = "exit"
    /\ UNCHANGED <<out, torn>>

\* if let Ok(input) = line fails: the line is skipped.
UnreadableLine ==
    /\ TakeLine
    /\ Head(stdin).kind = "Err"
    /\ UNCHANGED <<out, torn, pc>>

\* The end of the loop announced with a line of its own (a faulty variant).
EndOfInputAnnounced ==
    /\ pc = "loop"
    /\ stdin = <<>>
    /\ pc' = "exit"
    /\ out' = Append(out, JObj([jsonrpc |-> JStr("2.0"),
                                method |-> JStr("notifications/exit")]))
    /\ UNCHANGED <<stdin, input, torn>>

\* lines() is exhausted: the loop ends and main returns.
EndOfInput ==
    /\ pc = "loop"
    /\ stdin = <<>>
    /\ pc' = "exit"
    /\ UNCHANGED <<stdin, input, out, torn>>

\* A request whose response cannot be written.
RequestLineWriteFails ==
    /\ TakeLine
    /\ Head(stdin).kind = "Ok"
    /\ IsOk(FromStrRequest(Head(stdin).text))
    /\ send_response_fails(
           RequestResponse(FromStrRequest(Head(stdin).text).val))

\* A parse failure whose response cannot be written.
ParseFailureLineWriteFails ==
    /\ TakeLine
    /\ Head(stdin).kind = "Ok"
    /\ ~IsOk(FromStrRequest(Head(stdin).text))
    /\ ~IsOk(FromStrNotification(Head(stdin).text))
    /\ send_response_fails(ParseErrorResponse)

Next ==
    \/ RequestLine
    \/ NotificationLine
    \/ ParseFailureLine
    \/ UnreadableLine
    \/ EndOfInput

NextFault ==
    \/ Next
    \/ RequestLineWriteFails
    \/ ParseFailureLineWriteFails

\* The loop over a stdout that takes every write.
Spec == Init /\ [][Next]_vars

\* One line of any shape, over a stdout that takes every write.
SpecLine == InitLine /\ [][Next]_vars

\* The loop over a stdout that takes every write, with the process running
\* as long as it can take a step: main is one thread that nothing suspends,
\* and lines() returns each line, then the end of the input.
SpecLive == Init /\ [][Next]_vars /\ WF_vars(Next)

\* The loop over a stdout whose writes may fail.
SpecFault == Init /\ [][NextFault]_vars

(***************************************************************************)
(* Reading lines and responses as the peer sees them, on the wire          *)
(***************************************************************************)
IsText(line) == line.kind = "Ok"

\* The line is an object whose key k holds a JSON string.
HasString(text, k) ==
    text.t = "obj" /\ k \in DOMAIN text.o /\ text.o[k].t = "str"

\* The line is an object with the key k.
HasKey(text, k) == text.t = "obj" /\ k \in DOMAIN text.o

\* A JSON value that is a legal identifier: an unsigned integer or a string.
IsIdentifier(j) == (j.t = "num" /\ j.form = "PosInt") \/ j.t = "str"

\* A request object: id, jsonrpc and method present and well-typed.
WireRequest(text) ==
    /\ HasKey(text, "id") /\ IsIdentifier(text.o["id"])
    /\ HasString(text, "jsonrpc")
    /\ HasString(text, "method")

\* A notification object: jsonrpc and method present and well-typed, no id.
WireNotification(text) ==
    /\ text.t = "obj" /\ "id" \notin DOMAIN text.o
    /\ HasString(text, "jsonrpc")
    /\ HasString(text, "method")

\* The line is a request: by its shape, or because main takes it as one (the
\* array form of the struct).
IsRequestLine(line) ==
    IsText(line) /\ (WireRequest(line.text) \/ Classify(line.text) = "Request")

\* The identifier and the method a request line carries.
LineId(line) ==
    IF line.text.t = "obj" THEN line.text.o["id"] ELSE line.text.a[1]

LineMethod(line) ==
    IF line.text.t = "obj" THEN line.text.o["method"].s ELSE line.text.a[3].s

\* A written line that is a success response / an error response.
IsSuccess(r) ==
    r.t = "obj" /\ DOMAIN r.o = {"id", "jsonrpc", "result"}

IsError(r) ==
    /\ r.t = "obj" /\ DOMAIN r.o = {"id", "jsonrpc", "error"}
    /\ r.o["error"].t = "obj"

ErrorCode(r) == r.o["error"].o["code"]

\* The loop is about to take a line.
AtLine == pc = "loop" /\ stdin # <<>>

\* The last line written.
LastOut == out[Len(out)]

(***************************************************************************)
(* C1.  Every line classified as a Request causes exactly one response     *)
(* line to be written, and that line carries the request's identifier      *)
(* unchanged (the same JSON value); no step ever writes more than one      *)
(* line or takes back a written one.                                       *)
(***************************************************************************)
C1_RequestAnsweredOnce ==
    [][ /\ Len(out') <= Len(out) + 1
        /\ SubSeq(out', 1, Len(out)) = out
        /\ (AtLine /\ IsRequestLine(Head(stdin))) =>
              /\ Len(out') = Len(out) + 1
              /\ out'[Len(out')].t = "obj"
              /\ out'[Len(out')].o["id"] = LineId(Head(stdin)) ]_vars

\* Two requests have been answered, the second with the identifier "abc".
C1_Witness ==
    /\ Len(input) = 2 /\ Len(out) = 2
    /\ IsRequestLine(input[1]) /\ IsRequestLine(input[2])
    /\ LineId(input[2]) = JStr("abc")
    /\ LastOut.o["id"] = JStr("abc")

(***************************************************************************)
(* C2.  A valid notification (jsonrpc and method present, no id field),    *)
(* whatever its method, leaves the output as it was.                       *)
(***************************************************************************)
IsNotificationLine(line) == IsText(line) /\ WireNotification(line.text)

C2_NotificationSilent ==
    [][ (AtLine /\ IsNotificationLine(Head(stdin))) => out' = out ]_vars

\* A notification with an unknown method has been handled and nothing was
\* written.
C2_Witness ==
    /\ Len(input) = 1 /\ IsNotificationLine(input[1])
    /\ LineMethod(input[1]) = "foo"
    /\ out = <<>> /\ pc = "loop"

(***************************************************************************)
(* C3.  The responses are written in the order of the lines that require   *)
(* them: the i-th written line answers the i-th line of the input that is  *)
(* a request or is unparseable.                                            *)
(***************************************************************************)
IsUnparseableLine(line) ==
    IsText(line) /\ Classify(line.text) = "ParseFailure"

RequiresResponse(line) == IsRequestLine(line) \/ IsUnparseableLine(line)

\* The written line r is the answer to the line: to a request, the response
\* with its identifier and its method's outcome; to an unparseable line, the
\* parse error.
Answers(r, line) ==
    IF IsRequestLine(line)
    THEN /\ r.o["id"] = LineId(line)
         /\ CASE LineMethod(line) = "ping" ->
                    IsSuccess(r) /\ r.o["result"] = JObj(EmptyMap)
              [] LineMethod(line) = "initialize" ->
                    IsSuccess(r) /\ r.o["result"] # JObj(EmptyMap)
              [] OTHER ->
                    /\ IsError(r)
                    /\ ErrorCode(r) = JNegInt(ERROR_CODE_INVALID_REQUEST)
                    /\ r.o["error"].o["message"] =
                          JStr("Invalid request: '" \o LineMethod(line) \o "'")
    ELSE /\ IsError(r)
         /\ ErrorCode(r) = JNegInt(ERROR_CODE_PARSE_ERROR)

C3_ResponsesInOrder ==
    LET asked == SelectSeq(input, RequiresResponse)
    IN  /\ Len(out) = Len(asked)
        /\ \A i \in 1..Len(out) : Answers(out[i], asked[i])

\* Three lines that require different responses have been answered, with a
\* notification's worth of silence not among them.
C3_Witness ==
    /\ Len(input) = 3 /\ Len(out) = 3
    /\ IsUnparseableLine(input[1])
    /\ IsRequestLine(input[2]) /\ LineMethod(input[2]) = "foo"
    /\ IsRequestLine(input[3]) /\ LineMethod(input[3]) = "ping"
    /\ out[1] # out[2] /\ out[2] # out[3]

(***************************************************************************)
(* C4.  An initialize request with params.protocolVersion = X is answered  *)
(* with result.protocolVersion = X; without params or without that field,  *)
(* with the fixed default version.                                         *)
(***************************************************************************)
\* The version a request line asks for, or Absent.
RequestedVersion(line) ==
    LET params == IF line.text.t = "arr" THEN line.text.a[4]
                  ELSE IF "params" \in DOMAIN line.text.o
                       THEN line.text.o["params"] ELSE Absent
    IN  IF params.t = "obj" /\ "protocolVersion" \in DOMAIN params.o
        THEN params.o["protocolVersion"] ELSE Absent

IsInitializeLine(line) ==
    IsRequestLine(line) /\ LineMethod(line) = "initialize"

C4_InitializeEchoesVersion ==
    (Len(input) = 1 /\ IsInitializeLine(input[1])) =>
        /\ Len(out) = 1 /\ IsSuccess(out[1])
        /\ out[1].o["result"].t = "obj"
        /\ "protocolVersion" \in DOMAIN out[1].o["result"].o
        /\ out[1].o["result"].o["protocolVersion"] =
              IF RequestedVersion(input[1]) = Absent
              THEN JStr("2024-11-05")
              ELSE RequestedVersion(input[1])

(***************************************************************************)
(* C5.  A line with an id field is never taken as a notification: when its *)
(* id is ill-typed (null, negative, fractional, boolean) it is not dropped *)
(* without a response.                                                     *)
(***************************************************************************)
C5_IdNeverDropped ==
    (Len(input) = 1 /\ IsText(input[1]) /\ HasKey(input[1].text, "id")) =>
        /\ Classify(input[1].text) # "Notification"
        /\ Len(out) = 1

(***************************************************************************)
(* C6.  A request whose method is neither initialize nor ping is answered  *)
(* with an error response and no success response: the identifier echoed,  *)
(* error.code = -32600, and a message that holds the method name (between  *)
(* the quotes of "Invalid request: '...'").                                *)
(***************************************************************************)
IsUnknownMethodLine(line) ==
    IsRequestLine(line) /\ LineMethod(line) \notin {"initialize", "ping"}

C6_UnknownMethodError ==
    (Len(input) = 1 /\ IsUnknownMethodLine(input[1])) =>
        /\ Len(out) = 1 /\ IsError(out[1]) /\ ~IsSuccess(out[1])
        /\ out[1].o["id"] = LineId(input[1])
        /\ ErrorCode(out[1]) = JNegInt(-32600)
        /\ out[1].o["error"].o["message"] =
              JStr("Invalid request: '" \o LineMethod(input[1]) \o "'")

\* The request foo with the identifier "abc" got its error.
C6_Witness ==
    /\ Len(input) = 1 /\ IsUnknownMethodLine(input[1])
    /\ LineMethod(input[1]) = "foo" /\ LineId(input[1]) = JStr("abc")
    /\ Len(out) = 1 /\ IsError(out[1])

(***************************************************************************)
(* C7.  A line that parses neither as a request nor as a notification (not *)
(* JSON, or an object without jsonrpc or without method, whatever id it    *)
(* holds) is answered with exactly one error response, with error.code =   *)
(* -32700 and the identifier the number 0.                                 *)
(***************************************************************************)
IsMalformedLine(line) ==
    /\ IsText(line)
    /\ \/ Classify(line.text) = "ParseFailure"
       \/ line.text = NotJson
       \/ line.text.t = "obj" /\ "jsonrpc" \notin DOMAIN line.text.o
       \/ line.text.t = "obj" /\ "method" \notin DOMAIN line.text.o

C7_ParseErrorSentinel ==
    (Len(input) = 1 /\ IsMalformedLine(input[1])) =>
        /\ Len(out) = 1 /\ IsError(out[1])
        /\ ErrorCode(out[1]) = JNegInt(-32700)
        /\ out[1].o["id"] = JPosInt(0)

\* An object with the id 42 and no method got the parse error with id 0.
C7_Witness ==
    /\ Len(input) = 1 /\ IsMalformedLine(input[1])
    /\ HasKey(input[1].text, "id") /\ input[1].text.o["id"] = JPosInt(42)
    /\ Len(out) = 1 /\ out[1].o["id"] = JPosInt(0)

(***************************************************************************)
(* C8.  A failed write or flush in send_response does not end the loop:    *)
(* while lines are left to read, the process is still in the loop.         *)
(***************************************************************************)
C8_WriteFailureKeepsLoop ==
    stdin # <<>> => pc = "loop"

(***************************************************************************)
(* C9.  A ping request, whatever its params, is answered with a success    *)
(* response whose result is the empty object and whose identifier is the   *)
(* request's.                                                              *)
(***************************************************************************)
IsPingLine(line) == IsRequestLine(line) /\ LineMethod(line) = "ping"

C9_PingEmptyResult ==
    (Len(input) = 1 /\ IsPingLine(input[1])) =>
        /\ Len(out) = 1 /\ IsSuccess(out[1])
        /\ out[1].o["result"] = JObj(EmptyMap)
        /\ out[1].o["id"] = LineId(input[1])
        /\ out[1].o["jsonrpc"] = JStr("2.0")

\* A ping with an array for params got the empty result.
C9_Witness ==
    /\ Len(input) = 1 /\ IsPingLine(input[1])
    /\ HasKey(input[1].text, "params")
    /\ input[1].text.o["params"] = JArr(<<>>)
    /\ Len(out) = 1 /\ out[1].o["result"] = JObj(EmptyMap)

(***************************************************************************)
(* C10.  The identifier keeps its variant: a request with the numeric id n *)
(* is answered with the JSON number n, never with a string; a request with *)
(* the string id s, digits or not, is answered with the JSON string s.     *)
(***************************************************************************)
C10_IdVariantPreserved ==
    (Len(input) = 1 /\ IsRequestLine(input[1])) =>
        /\ Len(out) = 1 /\ out[1].t = "obj" /\ "id" \in DOMAIN out[1].o
        /\ LineId(input[1]).t = "num" =>
              /\ out[1].o["id"].t = "num"
              /\ out[1].o["id"].form = "PosInt"
              /\ out[1].o["id"].n = LineId(input[1]).n
        /\ LineId(input[1]).t = "str" =>
              /\ out[1].o["id"].t = "str"
              /\ out[1].o["id"].s = LineId(input[1]).s

\* The numeric id 42 came back as a number, not as the string "42".
C10_Witness ==
    /\ Len(input) = 1 /\ IsRequestLine(input[1])
    /\ LineId(input[1]) = JPosInt(42)
    /\ Len(out) = 1 /\ out[1].o["id"].t = "num" /\ out[1].o["id"].n = 42

\* The string id "42" came back as a string.
C10_WitnessString ==
    /\ Len(input) = 1 /\ IsRequestLine(input[1])
    /\ LineId(input[1]) = JStr("42")
    /\ Len(out) = 1 /\ out[1].o["id"] = JStr("42")

(***************************************************************************)
(* C11.  Every written response has jsonrpc = "2.0" and exactly one of     *)
(* result and error: a success response holds a non-null result and no     *)
(* error, an error response a non-null error and no result.                *)
(***************************************************************************)
\* The key k of the written object r holds a value other than null.
Populated(r, k) == k \in DOMAIN r.o /\ r.o[k] # JNull

C11_ResultXorError ==
    \A i \in 1..Len(out) :
        /\ out[i].t = "obj"
        /\ "jsonrpc" \in DOMAIN out[i].o /\ out[i].o["jsonrpc"] = JStr("2.0")
        /\ \/ Populated(out[i], "result") /\ "error" \notin DOMAIN out[i].o
           \/ Populated(out[i], "error") /\ "result" \notin DOMAIN out[i].o

\* A success response and an error response have both been written.
C11_Witness ==
    /\ Len(out) = 3
    /\ Populated(out[1], "result")
    /\ Populated(out[2], "error") /\ ErrorCode(out[2]) = JNegInt(-32600)
    /\ Populated(out[3], "error") /\ ErrorCode(out[3]) = JNegInt(-32700)

(***************************************************************************)
(* C12.  Every line taken as a request or as a notification has jsonrpc    *)
(* equal to the exact text "2.0": a line with any other jsonrpc string is  *)
(* not dispatched.                                                         *)
(***************************************************************************)
\* The line has been dispatched to handle_request or handle_notification.
IsDispatched(line) ==
    IsText(line) /\ Classify(line.text) \in {"Request", "Notification"}

\* The jsonrpc value of a dispatched line (in the array form, the element at
\* the place of the field).
LineJsonrpc(line) ==
    IF line.text.t = "obj" THEN line.text.o["jsonrpc"]
    ELSE IF Classify(line.text) = "Request" THEN line.text.a[2]
    ELSE line.text.a[1]

C12_JsonrpcIsTwoPointZero ==
    \A i \in 1..Len(input) :
        IsDispatched(input[i]) => LineJsonrpc(input[i]) = JStr("2.0")

(***************************************************************************)
(* C13.  Line processing is stateless: what is written for a line depends  *)
(* on that line alone.  Within one run: any two equal lines that require a *)
(* response, wherever they stand in the input, got equal responses (the    *)
(* same ping sent twice gets two identical success responses), and every   *)
(* such line got its own response.                                         *)
(***************************************************************************)
C13_SameLineSameResponse ==
    LET asked == SelectSeq(input, RequiresResponse)
    IN  /\ Len(out) = Len(asked)
        /\ \A i, j \in 1..Len(out) :
              asked[i] = asked[j] => out[i] = out[j]

\* The same ping was sent first and third, with another request between,
\* and got the same success response both times.
C13_Witness ==
    /\ Len(input) = 3 /\ Len(out) = 3
    /\ IsPingLine(input[1]) /\ input[3] = input[1]
    /\ IsRequestLine(input[2]) /\ input[2] # input[1]
    /\ out[1] = out[3] /\ out[2] # out[1] /\ IsSuccess(out[3])

(***************************************************************************)
(* C14.  With every write succeeding, on any finite input the loop ends    *)
(* when the input is exhausted: main returns, and nothing is written at    *)
(* the end of the input.  Whenever the loop is about to read a line, the   *)
(* response to every earlier line is written in full.                      *)
(***************************************************************************)
C14_TerminatesCleanly ==
    /\ <>(pc = "exit" /\ stdin = <<>>)
    /\ [][ pc' = "exit" => (stdin = <<>> /\ out' = out /\ ~torn') ]_vars
    /\ [](pc = "loop" =>
            /\ ~torn
            /\ Len(out) = Len(SelectSeq(input, RequiresResponse)))

\* main has returned after three lines, two of them answered.
C14_Witness ==
    /\ pc = "exit" /\ stdin = <<>>
    /\ Len(input) = 3 /\ Len(out) = 2 /\ ~torn

(***************************************************************************)
(* C15.  Round trip: every response the program writes, success or error,  *)
(* numeric or string identifier, parses back from its written form into    *)
(* the same response type as a value equal to the one that was serialized, *)
(* the identifier in the same variant.                                     *)
(***************************************************************************)
\* The response struct main or handle_request builds for a line that
\* requires one.
BuiltResponse(line) ==
    IF IsOk(FromStrRequest(line.text))
    THEN RequestResponse(FromStrRequest(line.text).val)
    ELSE ParseErrorResponse

\* The written line parsed back into the type of the struct.
ParsedBack(response, j) ==
    IF "result" \in DOMAIN response
    THEN DeserializeResponseSuccess(j)
    ELSE DeserializeResponseError(j)

C15_RoundTrip ==
    (Len(input) = 1 /\ RequiresResponse(input[1])) =>
        /\ Len(out) = 1
        /\ ParsedBack(BuiltResponse(input[1]), out[1])
              = Ok(BuiltResponse(input[1]))
        /\ ParsedBack(BuiltResponse(input[1]), out[1]).val.id.variant
              = BuiltResponse(input[1]).id.variant

\* An error response with the string identifier "42" was written and parses
\* back with a String identifier.
C15_Witness ==
    /\ Len(input) = 1 /\ IsUnknownMethodLine(input[1])
    /\ LineId(input[1]) = JStr("42")
    /\ Len(out) = 1 /\ IsError(out[1])
    /\ IsOk(DeserializeResponseError(out[1]))
    /\ DeserializeResponseError(out[1]).val.id = IdString("42")

(***************************************************************************)
(* C16.  Every initialize request, with any params or none, succeeds: the  *)
(* response is a success response, never an error, and its result holds    *)
(* protocolVersion, an empty capabilities object, and serverInfo with a    *)
(* name and a version.                                                     *)
(***************************************************************************)
C16_InitializeSucceeds ==
    (Len(input) = 1 /\ IsInitializeLine(input[1])) =>
        /\ Len(out) = 1 /\ IsSuccess(out[1]) /\ ~IsError(out[1])
        /\ out[1].o["id"] = LineId(input[1])
        /\ LET result == out[1].o["result"]
           IN  /\ result.t = "obj"
               /\ {"protocolVersion", "capabilities", "serverInfo"}
                     \subseteq DOMAIN result.o
               /\ result.o["protocolVersion"].t = "str"
               /\ result.o["capabilities"] = JObj(EmptyMap)
               /\ result.o["serverInfo"].t = "obj"
               /\ {"name", "version"} \subseteq DOMAIN result.o["serverInfo"].o
               /\ result.o["serverInfo"].o["name"].t = "str"
               /\ result.o["serverInfo"].o["version"].t = "str"

\* An initialize request whose params is a number got the full result.
C16_Witness ==
    /\ Len(input) = 1 /\ IsInitializeLine(input[1])
    /\ HasKey(input[1].text, "params")
    /\ input[1].text.o["params"] = JPosInt(1)
    /\ Len(out) = 1 /\ IsSuccess(out[1])
    /\ out[1].o["result"].o["serverInfo"].o["version"] = JStr("0.1.0")

(***************************************************************************)
(* C17.  Every line taken as a request has a non-empty method: a line      *)
(* whose method is the empty string is not dispatched to the method table  *)
(* of handle_request.                                                      *)
(***************************************************************************)
C17_MethodNonEmpty ==
    \A i \in 1..Len(input) :
        (IsText(input[i]) /\ Classify(input[i].text) = "Request") =>
            LineMethod(input[i]) # ""

(***************************************************************************)
(* C18.  The only error codes ever written are -32700 and -32600: -32700   *)
(* exactly in the answers to lines that parse as neither a request nor a   *)
(* notification, -32600 exactly in the answers to requests with an unknown *)
(* method; -32601, -32602 and -32603 are never written.  Hence the parse   *)
(* error with the identifier 0 always differs by its code from the answer  *)
(* to a request whose identifier is 0.                                     *)
(***************************************************************************)
\* The written line r holds an error with the code c.
HasCode(r, c) == IsError(r) /\ ErrorCode(r) = JInt(c)

C18_ErrorCodes ==
    LET asked == SelectSeq(input, RequiresResponse)
    IN  /\ Len(out) = Len(asked)
        /\ \A i \in 1..Len(out) :
              /\ ~IsSuccess(out[i]) =>
                    \/ HasCode(out[i], ERROR_CODE_PARSE_ERROR)
                    \/ HasCode(out[i], ERROR_CODE_INVALID_REQUEST)
              /\ ~HasCode(out[i], ERROR_CODE_METHOD_NOT_FOUND)
              /\ ~HasCode(out[i], ERROR_CODE_INVALID_PARAMS)
              /\ ~HasCode(out[i], ERROR_CODE_INTERNAL_ERROR)
              /\ HasCode(out[i], -32700) <=> IsUnparseableLine(asked[i])
              /\ HasCode(out[i], -32600) <=> IsUnknownMethodLine(asked[i])
        /\ \A i, j \in 1..Len(out) :
              (/\ IsUnparseableLine(asked[i])
               /\ IsRequestLine(asked[j])
               /\ LineId(asked[j]) = JPosInt(0)) =>
                  /\ out[i].o["id"] = out[j].o["id"]
                  /\ ~HasCode(out[j], -32700)

\* A parse error and the error for an unknown method of a request with the
\* identifier 0 have both been written: the same id, different codes.
C18_Witness ==
    /\ Len(input) = 2 /\ Len(out) = 2
    /\ IsUnparseableLine(input[1])
    /\ IsUnknownMethodLine(input[2]) /\ LineId(input[2]) = JPosInt(0)
    /\ out[1].o["id"] = out[2].o["id"]
    /\ HasCode(out[1], -32700) /\ HasCode(out[2], -32600)

(***************************************************************************)
(* C19.  After any prefix of the input, with every write succeeding, the   *)
(* number of lines written is the number of lines of the prefix taken as a *)
(* request or as a parse failure; notifications and lines that could not   *)
(* be read account for none.                                               *)
(***************************************************************************)
\* The positions of the input read so far whose line is of one of the
\* classes ("Unreadable" for a line that could not be read).
LineClass(line) ==
    IF IsText(line) THEN Classify(line.text) ELSE "Unreadable"

Positions(classes) ==
    {i \in 1..Len(input) : LineClass(input[i]) \in classes}

C19_OutputCount ==
    /\ Len(out) = Cardinality(Positions({"Request", "ParseFailure"}))
    /\ Len(input) - Len(out)
          = Cardinality(Positions({"Notification", "Unreadable"}))

\* A notification, an unreadable line and an unparseable line have been
\* read: one line was written.
C19_Witness ==
    /\ Len(input) = 3 /\ Len(out) = 1
    /\ Cardinality(Positions({"Notification"})) = 1
    /\ Cardinality(Positions({"Unreadable"})) = 1
    /\ Cardinality(Positions({"ParseFailure"})) = 1

(***************************************************************************)
(* C20.  A line that could not be read is skipped: nothing is written, no  *)
(* handler runs, and the loop goes on; the readable lines after it are     *)
(* classified and answered as usual.                                       *)
(***************************************************************************)
\* A line that could not be read is among those read so far.
SkippedBefore == \E i \in 1..Len(input) : ~IsText(input[i])

C20_UnreadableSkipped ==
    [][ /\ (AtLine /\ ~IsText(Head(stdin))) =>
              /\ out' = out /\ torn' = torn
              /\ pc' = "loop" /\ stdin' = Tail(stdin)
        /\ (AtLine /\ SkippedBefore /\ RequiresResponse(Head(stdin))) =>
              /\ Len(out') = Len(out) + 1
              /\ SubSeq(out', 1, Len(out)) = out
              /\ Answers(out'[Len(out')], Head(stdin))
              /\ pc' = "loop"
        /\ (AtLine /\ SkippedBefore /\ IsNotificationLine(Head(stdin))) =>
              out' = out /\ pc' = "loop" ]_vars

\* After a line that could not be read, a request was answered.
C20_Witness ==
    /\ Len(input) = 2 /\ ~IsText(input[1])
    /\ IsPingLine(input[2]) /\ LineId(input[2]) = JStr("42")
    /\ Len(out) = 1 /\ Answers(out[1], input[2])
    /\ pc = "loop"

====
